---- MODULE Spec2Model ----
(***************************************************************************)
(* ReusableConn (dialer.go): a mutex-guarded Dialer / net.Conn pair that   *)
(* redials lazily and re-applies stored deadlines; Domain.Select           *)
(* (sdb/domain.go): the NextToken-paginated query feeding a channel, with  *)
(* GetAttribute and DeleteAttribute; and Conn, the request pipe over a     *)
(* ReusableConn, with the query merge of Conn.Request.                     *)
(*                                                                         *)
(* Every public ReusableConn method is a sequence of steps of one thread:  *)
(* Call, Lock, the body up to each underlying call, the return of each     *)
(* underlying call, Unlock.  A thread whose pc is one of the "in_*" values *)
(* is inside a call of the Dialer or of the underlying net.Conn.           *)
(***************************************************************************)
EXTENDS Integers, Sequences, FiniteSets, TLC

\* ---------------------------------------------------------------- bounds
NumThreads == 2
MaxDeadline == 1
MaxSocks == 2
MaxPages == 3
MaxItems == 2
QueueCap == 2
MaxParams == 2
MaxSends == 2

Threads == 1..NumThreads
\* time.Time values; ZeroTime is the zero time.Time (IsZero)
ZeroTime == 0
Deadlines == ZeroTime..MaxDeadline
Socks == 1..MaxSocks

\* the nil net.Conn, the unlocked mutex, the nil error
Nil == 0
Free == 0
NoErr == "nil"

\* What a call of the Dialer or of the underlying net.Conn can do: return
\* without error, return an error, or panic.
Outcomes == {"ok", "err", "panic"}

PublicOps == {"Dial", "Close", "RemoteAddr", "LocalAddr", "Read", "Write",
              "SetReadDeadline", "SetWriteDeadline", "SetDeadline", "DomainClose"}

InCallPCs == {"in_dialer", "in_reapplyRD", "in_reapplyWD", "in_read", "in_write",
              "in_setRD", "in_setWD", "in_close", "in_addr"}
LockedPCs == InCallPCs \cup {"locked", "unlock"}

VARIABLES
  \* ReusableConn
  lock, conn, readDeadline, writeDeadline,
  \* the sockets the Dialer produced
  nDialed, open, sockRD, sockWD, dialOK,
  \* the calling threads
  pc, op, arg, err, calls,
  \* whether some public call was unwound by a panic
  faults,
  \* Domain.Select: its position, locals, the requests sent and responses
  \* received, and the items channel with its consumer
  spc, nextToken, sdone, serr, vlToken, reqLog, resps, pidx,
  qcap, queue, consumed,
  \* whether the consumer goroutine still receives, whether the caller has
  \* closed the channel, the base parameters held in vl and those of each
  \* request sent, and the Domain method that was called
  consuming, qclosed, vlBase, reqBase, sop,
  \* Conn (the request pipe over a ReusableConn): the *http.ClientConn it
  \* holds (cc, the field c), the handles built so far with the socket each was built on,
  \* the handles that met an I/O error, and each caller's position in
  \* Conn.Request with the handle its c.Write went to
  cc, built, hBroken, rpc, hcur,
  \* One *http.Request handed to Conn.Request by a single caller: its
  \* URL.RawQuery and Form now and as the caller built it, the RawQuery of
  \* each c.Write(req), the caller's position in Conn.Request, the error
  \* of its last call and the number of its calls
  rqQuery, rqForm, rq0Query, rq0Form, sent, qpc, rerr, sends

connVars == <<lock, conn, readDeadline, writeDeadline>>
sockVars == <<nDialed, open, sockRD, sockWD, dialOK>>
threadVars == <<pc, op, arg, err, calls>>
vars == <<lock, conn, readDeadline, writeDeadline, nDialed, open, sockRD, sockWD, dialOK,
          pc, op, arg, err, calls, faults,
          spc, nextToken, sdone, serr, vlToken, reqLog, resps, pidx, qcap, queue, consumed,
          consuming, qclosed, vlBase, reqBase, sop,
          cc, built, hBroken, rpc, hcur,
          rqQuery, rqForm, rq0Query, rq0Form, sent, qpc, rerr, sends>>
selVars == <<spc, nextToken, sdone, serr, vlToken, reqLog, resps, pidx, qcap, queue, consumed,
             consuming, qclosed, vlBase, reqBase, sop>>
\* what no step of a running Domain method changes
callVars == <<qcap, vlBase, sop>>
pipeVars == <<cc, built, hBroken, rpc, hcur>>
reqVars == <<rqQuery, rqForm, rq0Query, rq0Form, sent, qpc, rerr, sends>>
nonConnVars == <<selVars, pipeVars, reqVars>>
rcVars == <<lock, conn, readDeadline, writeDeadline, nDialed, open, sockRD, sockWD, dialOK,
            pc, op, arg, err, calls, faults>>
nonSelVars == <<rcVars, pipeVars, reqVars>>

NoCalls == [dial |-> 0, io |-> 0, close |-> 0, set |-> 0]

\* NewReusableConnection: conn nil, zero deadlines, a fresh unlocked mutex.
NewReusableConnection ==
  /\ lock = Free
  /\ conn = Nil
  /\ readDeadline = ZeroTime
  /\ writeDeadline = ZeroTime

\* The parameters put into vl before the loop: Action, the select
\* expression, and ConsistentRead when consist is set.
Bases == {{"Action", "SelectExpression"} \cup c : c \in {{}, {"ConsistentRead"}}}

\* No Select is running.
NoSelect ==
  /\ spc = "off"
  /\ nextToken = 0
  /\ sdone = FALSE
  /\ serr = NoErr
  /\ vlToken = 0
  /\ reqLog = <<>>
  /\ resps = <<>>
  /\ pidx = 0
  /\ qcap = 0
  /\ queue = <<>>
  /\ consumed = <<>>
  /\ consuming = FALSE
  /\ qclosed = FALSE
  /\ vlBase = {}
  /\ reqBase = <<>>
  /\ sop = "none"

ConnInit ==
  /\ NewReusableConnection
  /\ nDialed = 0
  /\ open = {}
  /\ sockRD = ZeroTime
  /\ sockWD = ZeroTime
  /\ dialOK = FALSE
  /\ pc = [t \in Threads |-> "idle"]
  /\ op = [t \in Threads |-> "none"]
  /\ arg = [t \in Threads |-> ZeroTime]
  /\ err = [t \in Threads |-> NoErr]
  /\ calls = [t \in Threads |-> NoCalls]
  /\ faults = FALSE

\* NewConn: no ClientConn yet; no caller is inside Conn.Request.
NewConn ==
  /\ cc = 0
  /\ built = {}
  /\ hBroken = {}
  /\ rpc = [t \in Threads |-> "idle"]
  /\ hcur = [t \in Threads |-> 0]

\* No request object is being followed.
NoRequest ==
  /\ rqQuery = <<>>
  /\ rqForm = [isNil |-> TRUE, vals |-> {}]
  /\ rq0Query = <<>>
  /\ rq0Form = [isNil |-> TRUE, vals |-> {}]
  /\ sent = <<>>
  /\ qpc = "off"
  /\ rerr = NoErr
  /\ sends = 0

Init == ConnInit /\ NoSelect /\ NewConn /\ NoRequest

\* The private method a public method runs under the lock.  SetDeadline is
\* SetReadDeadline and then, when that returned nil, SetWriteDeadline
\* ("SetDeadline2"), each a public call of its own.  Domain.Close is
\* Conn.Close, which closes the ReusableConn.
ConnClose(o) == IF o = "DomainClose" THEN "Close" ELSE o

Kind(o) ==
  CASE o = "SetDeadline" -> "SetReadDeadline"
    [] o = "SetDeadline2" -> "SetWriteDeadline"
    [] OTHER -> ConnClose(o)

DialFirst == {"Dial", "Read", "Write", "SetReadDeadline", "SetWriteDeadline"}

\* Where the caller of dial() goes when dial() returned nil.
AfterDial(k) ==
  CASE k = "Dial" -> "unlock"
    [] k = "Read" -> "in_read"
    [] k = "Write" -> "in_write"
    [] k = "SetReadDeadline" -> "in_setRD"
    [] k = "SetWriteDeadline" -> "in_setWD"

\* Per-call counts of the underlying calls a public call has made.
Bump(c, p) ==
  CASE p = "in_dialer" -> [c EXCEPT !.dial = @ + 1]
    [] p \in {"in_read", "in_write"} -> [c EXCEPT !.io = @ + 1]
    [] p = "in_close" -> [c EXCEPT !.close = @ + 1]
    [] p \in {"in_setRD", "in_setWD"} -> [c EXCEPT !.set = @ + 1]
    [] OTHER -> c

Goto(t, p) ==
  /\ pc' = [pc EXCEPT ![t] = p]
  /\ calls' = [calls EXCEPT ![t] = Bump(@, p)]

\* (mutant) no deferred Unlock: a panic leaves the method at once
PanicPc_NoDefer == "idle"

\* A panic in the Dialer or the socket unwinds through the deferred
\* lock.Unlock() of the public method.
PanicPc == "unlock"

Panic(t) ==
  /\ pc' = [pc EXCEPT ![t] = PanicPc]
  /\ err' = [err EXCEPT ![t] = "panic"]
  /\ UNCHANGED <<calls, op, arg>>

\* ------------------------------------------------------------ the callers
\* (mutant) a Lock that never waits
CanLock_NoMutex(t) == TRUE

\* sync.Mutex.Lock returns only while no thread holds the mutex.
CanLock(t) == lock = Free

\* A thread calls a public method and its self.lock.Lock() returns: a thread
\* blocked in Lock() is one whose Call is not enabled.
Call(t) ==
  /\ UNCHANGED nonConnVars
  /\ pc[t] = "idle"
  /\ CanLock(t)
  /\ \E o \in PublicOps, a \in Deadlines :
       /\ (a # ZeroTime => o \in {"SetReadDeadline", "SetWriteDeadline", "SetDeadline"})
       /\ op' = [op EXCEPT ![t] = o]
       /\ arg' = [arg EXCEPT ![t] = a]
  /\ lock' = t
  /\ pc' = [pc EXCEPT ![t] = "locked"]
  /\ err' = [err EXCEPT ![t] = NoErr]
  /\ calls' = [calls EXCEPT ![t] = NoCalls]
  /\ UNCHANGED <<conn, readDeadline, writeDeadline, sockVars, faults>>

\* SetDeadline: the Lock() of its second public call, SetWriteDeadline(t)
Lock(t) ==
  /\ UNCHANGED nonConnVars
  /\ pc[t] = "lock"
  /\ CanLock(t)
  /\ lock' = t
  /\ pc' = [pc EXCEPT ![t] = "locked"]
  /\ UNCHANGED <<conn, readDeadline, writeDeadline, sockVars, op, arg, err, calls, faults>>

\* deferred sync.Mutex.Unlock, then the return to the caller
Unlock(t) ==
  /\ UNCHANGED nonConnVars
  /\ pc[t] = "unlock"
  /\ lock' = Free
  /\ IF op[t] = "SetDeadline" /\ err[t] = NoErr
       THEN /\ op' = [op EXCEPT ![t] = "SetDeadline2"]
            /\ pc' = [pc EXCEPT ![t] = "lock"]
            /\ UNCHANGED <<arg, err>>
       ELSE /\ op' = [op EXCEPT ![t] = "none"]
            /\ pc' = [pc EXCEPT ![t] = "idle"]
            /\ arg' = [arg EXCEPT ![t] = ZeroTime]
            /\ err' = [err EXCEPT ![t] = NoErr]
  /\ calls' = [calls EXCEPT ![t] = NoCalls]
  /\ faults' = (faults \/ err[t] = "panic")
  /\ UNCHANGED <<conn, readDeadline, writeDeadline, sockVars>>

\* ------------------------------------------------------------------ dial
\* (mutant) dial() without the nil test
NeedsDial_Always == TRUE

\* dial(): "if self.conn == nil"
NeedsDial == conn = Nil

dial(t) ==
  /\ UNCHANGED nonConnVars
  /\ pc[t] = "locked"
  /\ Kind(op[t]) \in DialFirst
  /\ IF NeedsDial
       THEN Goto(t, "in_dialer")
       ELSE Goto(t, AfterDial(Kind(op[t])))
  /\ UNCHANGED <<connVars, sockVars, op, arg, err, faults>>

\* (mutant) dial() that forgets the read deadline
ReapplyPc_NoRead(stage, k) ==
  IF stage \in {"dialed", "rd"} /\ writeDeadline # ZeroTime THEN "in_reapplyWD"
  ELSE AfterDial(k)

\* After the Dialer returned a socket: re-apply the stored deadlines that
\* are not zero, the read deadline first.
ReapplyPc(stage, k) ==
  IF stage = "dialed" /\ readDeadline # ZeroTime THEN "in_reapplyRD"
  ELSE IF stage \in {"dialed", "rd"} /\ writeDeadline # ZeroTime THEN "in_reapplyWD"
  ELSE AfterDial(k)

\* self.conn, err = self.dialer()
dialerReturn(t) ==
  /\ UNCHANGED nonConnVars
  /\ UNCHANGED faults
  /\ pc[t] = "in_dialer"
  /\ \E out \in Outcomes :
       CASE out = "ok" ->
              /\ nDialed < MaxSocks
              /\ nDialed' = nDialed + 1
              /\ conn' = nDialed + 1
              /\ open' = open \cup {nDialed + 1}
              /\ sockRD' = ZeroTime
              /\ sockWD' = ZeroTime
              /\ dialOK' = (ReapplyPc("dialed", Kind(op[t])) = AfterDial(Kind(op[t])))
              /\ Goto(t, ReapplyPc("dialed", Kind(op[t])))
              /\ UNCHANGED <<lock, readDeadline, writeDeadline, op, arg, err>>
         [] out = "err" ->
              /\ conn' = Nil
              /\ dialOK' = FALSE
              /\ err' = [err EXCEPT ![t] = "err"]
              /\ pc' = [pc EXCEPT ![t] = "unlock"]
              /\ UNCHANGED <<lock, readDeadline, writeDeadline, nDialed, open, sockRD,
                             sockWD, op, arg, calls>>
         [] out = "panic" ->
              /\ Panic(t)
              /\ UNCHANGED <<connVars, sockVars>>

\* dial(): err = self.setReadDeadline(self.readDeadline) on the new socket
reapplyRDReturn(t) ==
  /\ UNCHANGED nonConnVars
  /\ UNCHANGED faults
  /\ pc[t] = "in_reapplyRD"
  /\ \E out \in Outcomes :
       CASE out = "ok" ->
              /\ sockRD' = readDeadline
              /\ readDeadline' = readDeadline
              /\ dialOK' = (ReapplyPc("rd", Kind(op[t])) = AfterDial(Kind(op[t])))
              /\ Goto(t, ReapplyPc("rd", Kind(op[t])))
              /\ UNCHANGED <<lock, conn, writeDeadline, nDialed, open, sockWD, op, arg, err>>
         [] out = "err" ->
              /\ err' = [err EXCEPT ![t] = "err"]
              /\ pc' = [pc EXCEPT ![t] = "unlock"]
              /\ UNCHANGED <<connVars, sockVars, op, arg, calls>>
         [] out = "panic" ->
              /\ Panic(t)
              /\ UNCHANGED <<connVars, sockVars>>

\* dial(): err = self.setWriteDeadline(self.writeDeadline) on the new socket
reapplyWDReturn(t) ==
  /\ UNCHANGED nonConnVars
  /\ UNCHANGED faults
  /\ pc[t] = "in_reapplyWD"
  /\ \E out \in Outcomes :
       CASE out = "ok" ->
              /\ sockWD' = writeDeadline
              /\ writeDeadline' = writeDeadline
              /\ dialOK' = TRUE
              /\ Goto(t, ReapplyPc("wd", Kind(op[t])))
              /\ UNCHANGED <<lock, conn, readDeadline, nDialed, open, sockRD, op, arg, err>>
         [] out = "err" ->
              /\ err' = [err EXCEPT ![t] = "err"]
              /\ pc' = [pc EXCEPT ![t] = "unlock"]
              /\ UNCHANGED <<connVars, sockVars, op, arg, calls>>
         [] out = "panic" ->
              /\ Panic(t)
              /\ UNCHANGED <<connVars, sockVars>>

\* ----------------------------------------------------------------- close
\* (mutant) close() without the nil test
NeedsClose_Always == TRUE

\* close(): "if self.conn != nil"
NeedsClose == conn # Nil

\* (mutant) close() that drops the socket without calling its Close
EnterClose_Leak(t) ==
  /\ conn' = Nil
  /\ pc' = [pc EXCEPT ![t] = "unlock"]
  /\ UNCHANGED <<lock, readDeadline, writeDeadline, sockVars, op, arg, calls>>

\* close() calls self.conn.Close(); a socket stops being open when its
\* Close is called.
EnterClose(t) ==
  /\ Goto(t, "in_close")
  /\ open' = open \ {conn}
  /\ UNCHANGED <<connVars, nDialed, sockRD, sockWD, dialOK, op, arg>>

close(t) ==
  /\ UNCHANGED nonConnVars
  /\ UNCHANGED faults
  /\ pc[t] = "locked"
  /\ Kind(op[t]) = "Close"
  /\ IF NeedsClose
       THEN EnterClose(t) /\ UNCHANGED err
       ELSE /\ pc' = [pc EXCEPT ![t] = "unlock"]
            /\ err' = [err EXCEPT ![t] = NoErr]
            /\ UNCHANGED <<connVars, sockVars, op, arg, calls>>

\* err = self.conn.Close(); self.conn = nil.  read and write drop the
\* error close() returns and keep their own.
closeReturn(t) ==
  /\ UNCHANGED nonConnVars
  /\ UNCHANGED faults
  /\ pc[t] = "in_close"
  /\ \E out \in Outcomes :
       CASE out \in {"ok", "err"} ->
              /\ conn' = Nil
              /\ err' = [err EXCEPT ![t] =
                           IF Kind(op[t]) = "Close"
                             THEN (IF out = "ok" THEN NoErr ELSE "err")
                             ELSE @]
              /\ pc' = [pc EXCEPT ![t] = "unlock"]
              /\ UNCHANGED <<lock, readDeadline, writeDeadline, sockVars, op, arg, calls>>
         [] out = "panic" ->
              /\ Panic(t)
              /\ UNCHANGED <<connVars, sockVars>>

\* ------------------------------------------------------------ read, write
\* (mutant) a failed Read or Write is tried again on the same socket
ioReturn_Retry(t) ==
  \E out \in Outcomes :
    CASE out = "ok" ->
           /\ err' = [err EXCEPT ![t] = NoErr]
           /\ pc' = [pc EXCEPT ![t] = "unlock"]
           /\ UNCHANGED <<connVars, sockVars, op, arg, calls>>
      [] out = "err" ->
           /\ err' = [err EXCEPT ![t] = "err"]
           /\ Goto(t, pc[t])
           /\ UNCHANGED <<connVars, sockVars, op, arg>>
      [] out = "panic" ->
           /\ Panic(t)
           /\ UNCHANGED <<connVars, sockVars>>

\* n, err = self.conn.Read(in) / self.conn.Write(in); on an error, close()
ioReturn(t) ==
  \E out \in Outcomes :
    CASE out = "ok" ->
           /\ err' = [err EXCEPT ![t] = NoErr]
           /\ pc' = [pc EXCEPT ![t] = "unlock"]
           /\ UNCHANGED <<connVars, sockVars, op, arg, calls>>
      [] out = "err" ->
           /\ err' = [err EXCEPT ![t] = "err"]
           /\ IF NeedsClose
                THEN EnterClose(t)
                ELSE /\ pc' = [pc EXCEPT ![t] = "unlock"]
                     /\ UNCHANGED <<connVars, sockVars, op, arg, calls>>
      [] out = "panic" ->
           /\ Panic(t)
           /\ UNCHANGED <<connVars, sockVars>>

readReturn(t) ==
  /\ UNCHANGED nonConnVars
  /\ UNCHANGED faults
  /\ pc[t] = "in_read"
  /\ ioReturn(t)

writeReturn(t) ==
  /\ UNCHANGED nonConnVars
  /\ UNCHANGED faults
  /\ pc[t] = "in_write"
  /\ ioReturn(t)

\* -------------------------------------------------------------- deadlines
\* (mutant) the read deadline is stored whether or not the socket took it
setReadDeadlineReturn_StoreOnErr(t) ==
  /\ UNCHANGED nonConnVars
  /\ UNCHANGED faults
  /\ pc[t] = "in_setRD"
  /\ \E out \in Outcomes :
       CASE out = "ok" ->
              /\ sockRD' = arg[t]
              /\ readDeadline' = arg[t]
              /\ err' = [err EXCEPT ![t] = NoErr]
              /\ pc' = [pc EXCEPT ![t] = "unlock"]
              /\ UNCHANGED <<lock, conn, writeDeadline, nDialed, open, sockWD, dialOK,
                             op, arg, calls>>
         [] out = "err" ->
              /\ readDeadline' = arg[t]
              /\ err' = [err EXCEPT ![t] = "err"]
              /\ pc' = [pc EXCEPT ![t] = "unlock"]
              /\ UNCHANGED <<lock, conn, writeDeadline, sockVars, op, arg, calls>>
         [] out = "panic" ->
              /\ Panic(t)
              /\ UNCHANGED <<connVars, sockVars>>

\* err = self.conn.SetReadDeadline(t); if err == nil { self.readDeadline = t }
setReadDeadlineReturn(t) ==
  /\ UNCHANGED nonConnVars
  /\ UNCHANGED faults
  /\ pc[t] = "in_setRD"
  /\ \E out \in Outcomes :
       CASE out = "ok" ->
              /\ sockRD' = arg[t]
              /\ readDeadline' = arg[t]
              /\ err' = [err EXCEPT ![t] = NoErr]
              /\ pc' = [pc EXCEPT ![t] = "unlock"]
              /\ UNCHANGED <<lock, conn, writeDeadline, nDialed, open, sockWD, dialOK,
                             op, arg, calls>>
         [] out = "err" ->
              /\ err' = [err EXCEPT ![t] = "err"]
              /\ pc' = [pc EXCEPT ![t] = "unlock"]
              /\ UNCHANGED <<connVars, sockVars, op, arg, calls>>
         [] out = "panic" ->
              /\ Panic(t)
              /\ UNCHANGED <<connVars, sockVars>>

\* err = self.conn.SetWriteDeadline(t); if err == nil { self.writeDeadline = t }
setWriteDeadlineReturn(t) ==
  /\ UNCHANGED nonConnVars
  /\ UNCHANGED faults
  /\ pc[t] = "in_setWD"
  /\ \E out \in Outcomes :
       CASE out = "ok" ->
              /\ sockWD' = arg[t]
              /\ writeDeadline' = arg[t]
              /\ err' = [err EXCEPT ![t] = NoErr]
              /\ pc' = [pc EXCEPT ![t] = "unlock"]
              /\ UNCHANGED <<lock, conn, readDeadline, nDialed, open, sockRD, dialOK,
                             op, arg, calls>>
         [] out = "err" ->
              /\ err' = [err EXCEPT ![t] = "err"]
              /\ pc' = [pc EXCEPT ![t] = "unlock"]
              /\ UNCHANGED <<connVars, sockVars, op, arg, calls>>
         [] out = "panic" ->
              /\ Panic(t)
              /\ UNCHANGED <<connVars, sockVars>>

\* ------------------------------------------------- RemoteAddr, LocalAddr
\* if self.conn != nil { a = self.conn.RemoteAddr() }
addr(t) ==
  /\ UNCHANGED nonConnVars
  /\ pc[t] = "locked"
  /\ Kind(op[t]) \in {"RemoteAddr", "LocalAddr"}
  /\ pc' = [pc EXCEPT ![t] = IF conn # Nil THEN "in_addr" ELSE "unlock"]
  /\ UNCHANGED <<connVars, sockVars, op, arg, err, calls, faults>>

addrReturn(t) ==
  /\ UNCHANGED nonConnVars
  /\ pc[t] = "in_addr"
  /\ \E out \in {"ok", "panic"} :
       CASE out = "ok" ->
              /\ pc' = [pc EXCEPT ![t] = "unlock"]
              /\ UNCHANGED <<op, arg, err, calls>>
         [] out = "panic" -> Panic(t)
  /\ UNCHANGED <<connVars, sockVars, faults>>

Next ==
  \E t \in Threads :
    \/ Call(t)
    \/ Lock(t)
    \/ Unlock(t)
    \/ dial(t)
    \/ dialerReturn(t)
    \/ reapplyRDReturn(t)
    \/ reapplyWDReturn(t)
    \/ close(t)
    \/ closeReturn(t)
    \/ readReturn(t)
    \/ writeReturn(t)
    \/ setReadDeadlineReturn(t)
    \/ setWriteDeadlineReturn(t)
    \/ addr(t)
    \/ addrReturn(t)

Spec == Init /\ [][Next]_vars

TypeOK ==
  /\ lock \in Threads \cup {Free}
  /\ conn \in Socks \cup {Nil}
  /\ readDeadline \in Deadlines
  /\ writeDeadline \in Deadlines
  /\ nDialed \in 0..MaxSocks
  /\ open \subseteq Socks
  /\ sockRD \in Deadlines
  /\ sockWD \in Deadlines
  /\ dialOK \in BOOLEAN
  /\ pc \in [Threads -> LockedPCs \cup {"idle", "lock"}]
  /\ op \in [Threads -> PublicOps \cup {"none", "SetDeadline2"}]
  /\ arg \in [Threads -> Deadlines]
  /\ err \in [Threads -> {NoErr, "err", "panic"}]
  /\ calls \in [Threads -> [dial : 0..1, io : 0..1, close : 0..1, set : 0..1]]
  /\ faults \in BOOLEAN

\* ===================================================================
\* Domain.Select (sdb/domain.go): one request per page, following NextToken,
\* each page's items sent on the items channel in order.
\* ===================================================================
\* A response: its status class, whether its body decodes into a
\* selectresponse, and then the number of items and the NextToken it
\* carries (0 is the empty string, k the cursor handed out with page k).
\* Select does not look at the status, so a failure response is decoded
\* like any other, and whether that works is up to its body.
Responses(k) ==
  {r \in [status : {"ok", "fail"}, decodes : BOOLEAN, n : 0..MaxItems, next : {0, k}] :
     ~r.decodes => (r.n = 0 /\ r.next = 0)}

\* The items of the k-th response, in the server's order.
PageItems(k, r) == [i \in 1..r.n |-> <<k, i>>]

RECURSIVE Flatten(_, _)
\* The items of responses 1..k of rs, page by page.
Flatten(rs, k) ==
  IF k = 0 THEN <<>>
  ELSE Flatten(rs, k - 1) \o (IF rs[k].decodes THEN PageItems(k, rs[k]) ELSE <<>>)

\* Everything sent on the channel so far: received, then still buffered.
Delivered == consumed \o queue

\* Select is called: vl built, done := false, nextToken := "".  The channel
\* is the caller's: unbuffered (capacity 0) or buffered.
SelectInit ==
  /\ ConnInit
  /\ NewConn
  /\ NoRequest
  /\ spc = "loop"
  /\ nextToken = 0
  /\ sdone = FALSE
  /\ serr = NoErr
  /\ vlToken = 0
  /\ reqLog = <<>>
  /\ resps = <<>>
  /\ pidx = 0
  /\ qcap \in 0..QueueCap
  /\ queue = <<>>
  /\ consumed = <<>>
  /\ consuming = TRUE
  /\ qclosed = FALSE
  /\ vlBase \in Bases
  /\ reqBase = <<>>
  /\ sop = "Select"

\* (mutant) no Del, and a cursor already in vl is kept
SetToken_KeepOld(v, tok) == IF v # 0 THEN v ELSE tok

\* vl.Del("NextToken"); if nextToken != "" { vl.Set("NextToken", nextToken) }
SetToken(v, tok) == IF tok # 0 THEN tok ELSE 0

\* for err == nil && !done
LoopContinues == serr = NoErr /\ ~sdone

\* One loop iteration up to the call of conn.Request: the cursor parameter,
\* NewRequest, SignRequestV2 (which may fail), and the request is sent.
SelectIter ==
  /\ spc = "loop"
  /\ LoopContinues
  /\ vlToken' = SetToken(vlToken, nextToken)
  /\ \E signed \in BOOLEAN :
       IF signed
         THEN /\ reqLog' = Append(reqLog, vlToken')
              /\ reqBase' = Append(reqBase, vlBase)
              /\ spc' = "request"
              /\ serr' = serr
         ELSE /\ serr' = "sign"
              /\ UNCHANGED <<reqLog, reqBase, spc>>
  /\ UNCHANGED <<nextToken, sdone, resps, pidx, queue, consumed, consuming, qclosed,
                 callVars, nonSelVars>>

\* conn.Request returns: a transport error, or the next response, which is
\* decoded whatever its status.
RequestReturn ==
  /\ spc = "request"
  /\ \/ /\ serr' = "transport"
        /\ spc' = "loop"
        /\ UNCHANGED <<resps, pidx>>
     \/ /\ Len(reqLog) <= MaxPages
        /\ \E r \in Responses(Len(reqLog)) :
             /\ resps' = Append(resps, r)
             /\ IF r.decodes
                  THEN spc' = "push" /\ pidx' = 1 /\ serr' = serr
                  ELSE spc' = "loop" /\ pidx' = pidx /\ serr' = "decode"
  /\ UNCHANGED <<nextToken, sdone, vlToken, reqLog, reqBase, queue, consumed, consuming,
                 qclosed, callVars, nonSelVars>>

\* (mutant) a send that never waits
CanSend_Always == TRUE

\* A send on the channel can proceed: an unbuffered channel needs the
\* receiver, a buffered one needs room.
CanSend == IF qcap = 0 THEN consuming ELSE Len(queue) < qcap

\* (mutant) a send that gives the item up when it cannot proceed
SelectPush_DropOnFull ==
  /\ spc = "push"
  /\ pidx <= resps[Len(resps)].n
  /\ IF ~CanSend
       THEN UNCHANGED <<queue, consumed>>
       ELSE IF qcap = 0
         THEN /\ consumed' = Append(consumed, PageItems(Len(resps), resps[Len(resps)])[pidx])
              /\ queue' = queue
         ELSE /\ queue' = Append(queue, PageItems(Len(resps), resps[Len(resps)])[pidx])
              /\ consumed' = consumed
  /\ pidx' = pidx + 1
  /\ UNCHANGED <<spc, nextToken, sdone, serr, vlToken, reqLog, reqBase, resps, consuming,
                 qclosed, callVars, nonSelVars>>

\* items <- xresp.Items[i]: on an unbuffered channel the send is the
\* consumer's receive; on a buffered one it waits for room.
SelectPush ==
  /\ spc = "push"
  /\ pidx <= resps[Len(resps)].n
  /\ CanSend
  /\ IF qcap = 0
       THEN /\ consumed' = Append(consumed, PageItems(Len(resps), resps[Len(resps)])[pidx])
            /\ queue' = queue
       ELSE /\ queue' = Append(queue, PageItems(Len(resps), resps[Len(resps)])[pidx])
            /\ consumed' = consumed
  /\ pidx' = pidx + 1
  /\ UNCHANGED <<spc, nextToken, sdone, serr, vlToken, reqLog, reqBase, resps, consuming,
                 qclosed, callVars, nonSelVars>>

\* (mutant) done set after the first page whatever its cursor
PageDone_Always(r) == TRUE

\* done = (nextToken == "")
PageDone(r) == r.next = 0

\* nextToken = xresp.NextToken; done = (nextToken == ""); resp.Body.Close()
SelectEndPage ==
  /\ spc = "push"
  /\ pidx > resps[Len(resps)].n
  /\ nextToken' = resps[Len(resps)].next
  /\ sdone' = PageDone(resps[Len(resps)])
  /\ spc' = "loop"
  /\ UNCHANGED <<serr, vlToken, reqLog, reqBase, resps, pidx, queue, consumed, consuming,
                 qclosed, callVars, nonSelVars>>

\* (mutant) a Select that closes the channel when it returns
SelectReturn_Closes ==
  /\ spc = "loop"
  /\ ~LoopContinues
  /\ spc' = "returned"
  /\ qclosed' = TRUE
  /\ UNCHANGED <<nextToken, sdone, serr, vlToken, reqLog, reqBase, resps, pidx, queue,
                 consumed, consuming, callVars, nonSelVars>>

\* the loop ends; return err
SelectReturn ==
  /\ spc = "loop"
  /\ ~LoopContinues
  /\ spc' = "returned"
  /\ UNCHANGED <<nextToken, sdone, serr, vlToken, reqLog, reqBase, resps, pidx, queue,
                 consumed, consuming, qclosed, callVars, nonSelVars>>

\* The caller's consumer receives from a buffered channel.
Consume ==
  /\ consuming
  /\ queue # <<>>
  /\ consumed' = Append(consumed, Head(queue))
  /\ queue' = Tail(queue)
  /\ UNCHANGED <<spc, nextToken, sdone, serr, vlToken, reqLog, reqBase, resps, pidx,
                 qclosed, consuming, callVars, nonSelVars>>

\* The consumer stops receiving (its loop ends, or it never comes back to
\* the channel).
ConsumerStop ==
  /\ consuming
  /\ consuming' = FALSE
  /\ UNCHANGED <<spc, nextToken, sdone, serr, vlToken, reqLog, reqBase, resps, pidx,
                 queue, consumed, qclosed, callVars, nonSelVars>>

\* The caller, after the call returned an error: close(keys)
CallerClose ==
  /\ spc = "returned"
  /\ serr # NoErr
  /\ ~qclosed
  /\ qclosed' = TRUE
  /\ UNCHANGED <<spc, nextToken, sdone, serr, vlToken, reqLog, reqBase, resps, pidx,
                 queue, consumed, consuming, callVars, nonSelVars>>

\* The steps of Select itself.
SelectStep ==
  \/ SelectIter
  \/ RequestReturn
  \/ SelectPush
  \/ SelectEndPage
  \/ SelectReturn

SelectNext ==
  \/ SelectIter
  \/ RequestReturn
  \/ SelectPush
  \/ SelectEndPage
  \/ SelectReturn
  \/ Consume
  \/ CallerClose

SelectSpec == SelectInit /\ [][SelectNext]_vars

\* Select with a consumer that may stop receiving.  Select's own steps are
\* taken when they can be (the goroutine runs, a request comes back with a
\* response or an error), and so are the receives of a consumer that is
\* still receiving.
StoppableNext ==
  \/ SelectNext
  \/ ConsumerStop

\* Which base parameters the call has plays no part in whether it returns:
\* the call is one without ConsistentRead.
SelectFairInit == SelectInit /\ vlBase = {"Action", "SelectExpression"}

SelectFairSpec ==
  /\ SelectFairInit
  /\ [][StoppableNext]_vars
  /\ WF_vars(SelectStep)
  /\ WF_vars(Consume)

SelectTypeOK ==
  /\ spc \in {"off", "loop", "request", "push", "returned"}
  /\ nextToken \in 0..MaxPages
  /\ vlToken \in 0..MaxPages
  /\ sdone \in BOOLEAN
  /\ serr \in {NoErr, "sign", "transport", "decode"}
  /\ Len(reqLog) <= MaxPages + 1
  /\ Len(resps) <= MaxPages
  /\ pidx \in 0..(MaxItems + 1)
  /\ qcap \in 0..QueueCap
  /\ Len(queue) <= qcap
  /\ consuming \in BOOLEAN
  /\ qclosed \in BOOLEAN
  /\ vlBase \in Bases \cup {{}}
  /\ Len(reqBase) = Len(reqLog)
  /\ sop \in {"none", "Select", "GetAttribute", "DeleteAttribute"}

\* ===================================================================
\* Domain.GetAttribute and Domain.DeleteAttribute (sdb/domain.go): one
\* signed request, its status mapped to an error, and for GetAttribute the
\* body decoded.  DomainSpec is a call of any of the three Domain methods.
\* ===================================================================
AttrOps == {"GetAttribute", "DeleteAttribute"}

\* The parameters in vl: Action, DomainName, ItemName, and for
\* GetAttribute ConsistentRead when consist is set.
AttrBases(o) ==
  {{"Action", "DomainName", "ItemName"} \cup c :
     c \in (IF o = "GetAttribute" THEN {{}, {"ConsistentRead"}} ELSE {{}})}

AttrInit ==
  /\ ConnInit
  /\ NewConn
  /\ NoRequest
  /\ sop \in AttrOps
  /\ spc = "attr"
  /\ nextToken = 0
  /\ sdone = FALSE
  /\ serr = NoErr
  /\ vlToken = 0
  /\ reqLog = <<>>
  /\ reqBase = <<>>
  /\ resps = <<>>
  /\ pidx = 0
  /\ qcap = 0
  /\ queue = <<>>
  /\ consumed = <<>>
  /\ consuming = FALSE
  /\ qclosed = FALSE
  /\ vlBase \in AttrBases(sop)

DomainInit == SelectInit \/ AttrInit

\* (mutant) the request is sent whatever signing returned
SendsRequest_Always(e) == TRUE

\* if err == nil { resp, err = self.conn.Request(req) }
SendsRequest(e) == e = NoErr

\* aws.CodeToError: nil for a success status, an error for any other
CodeToError(st) == IF st = "ok" THEN NoErr ELSE "status"

\* NewRequest, SignRequestV2 (which may fail), and when it did not,
\* conn.Request is called.
AttrSign ==
  /\ spc = "attr"
  /\ \E signErr \in {NoErr, "sign"} :
       /\ serr' = signErr
       /\ IF SendsRequest(signErr)
            THEN /\ reqLog' = Append(reqLog, 0)
                 /\ reqBase' = Append(reqBase, vlBase)
                 /\ spc' = "attr_request"
            ELSE /\ spc' = "returned"
                 /\ UNCHANGED <<reqLog, reqBase>>
  /\ UNCHANGED <<nextToken, sdone, vlToken, resps, pidx, queue, consumed, consuming,
                 qclosed, callVars, nonSelVars>>

\* conn.Request returns a transport error or a response; the response's
\* status is mapped by CodeToError, and GetAttribute decodes the body of a
\* success.  The method returns.
AttrRequestReturn ==
  /\ spc = "attr_request"
  /\ spc' = "returned"
  /\ \/ /\ serr' = "transport"
        /\ UNCHANGED resps
     \/ \E r \in Responses(0) :
          /\ resps' = Append(resps, r)
          /\ serr' = IF CodeToError(r.status) # NoErr THEN CodeToError(r.status)
                     ELSE IF sop = "GetAttribute" /\ ~r.decodes THEN "decode"
                     ELSE NoErr
  /\ UNCHANGED <<nextToken, sdone, vlToken, reqLog, reqBase, pidx, queue, consumed,
                 consuming, qclosed, callVars, nonSelVars>>

DomainNext ==
  \/ SelectNext
  \/ AttrSign
  \/ AttrRequestReturn

DomainSpec == DomainInit /\ [][DomainNext]_vars

DomainTypeOK ==
  /\ spc \in {"loop", "request", "push", "attr", "attr_request", "returned"}
  /\ sop \in AttrOps \cup {"Select"}
  /\ serr \in {NoErr, "sign", "transport", "decode", "status"}
  /\ Len(reqBase) = Len(reqLog)
  /\ Len(resps) <= Len(reqLog)

\* ===================================================================
\* Conn (the request pipe): Conn.dial and Conn.Request over one
\* ReusableConn.  Conn has no lock of its own: a caller of Request reads and
\* writes the field c (cc) between its calls of the ReusableConn's public
\* methods, each of which locks for itself.  The ClientConn writes a request
\* with a Write of the ReusableConn and reads a response with a Read of it,
\* and once one of them failed it returns that error from then on.
\* ===================================================================
PipeInit == ConnInit /\ NoSelect /\ NewConn /\ NoRequest

\* The socket a handle was built on (Nil when none was held at that time).
BuiltOn(h) == (CHOOSE p \in built : p[1] = h)[2]

\* A caller enters a public method of the ReusableConn held in uc.
UcCall(t, o) ==
  /\ pc[t] = "idle"
  /\ CanLock(t)
  /\ lock' = t
  /\ pc' = [pc EXCEPT ![t] = "locked"]
  /\ op' = [op EXCEPT ![t] = o]
  /\ arg' = [arg EXCEPT ![t] = ZeroTime]
  /\ err' = [err EXCEPT ![t] = NoErr]
  /\ calls' = [calls EXCEPT ![t] = NoCalls]
  /\ UNCHANGED <<conn, readDeadline, writeDeadline, sockVars, faults>>

\* That method's deferred Unlock and its return into Conn's code.
UcReturn(t) ==
  /\ pc[t] = "unlock"
  /\ lock' = Free
  /\ pc' = [pc EXCEPT ![t] = "idle"]
  /\ op' = [op EXCEPT ![t] = "none"]
  /\ err' = [err EXCEPT ![t] = NoErr]
  /\ calls' = [calls EXCEPT ![t] = NoCalls]
  /\ faults' = (faults \/ err[t] = "panic")
  /\ UNCHANGED <<conn, readDeadline, writeDeadline, sockVars, arg>>

\* Conn.dial: "if self.c == nil"
NeedsHandle == cc = 0

\* Conn.Request is called; Conn.dial tests self.c.
PipeRequest(t) ==
  /\ rpc[t] = "idle"
  /\ pc[t] = "idle"
  /\ rpc' = [rpc EXCEPT ![t] = IF NeedsHandle THEN "dial" ELSE "write"]
  /\ UNCHANGED <<cc, built, hBroken, hcur, rcVars, selVars, reqVars>>

\* Conn.dial: err = self.uc.Dial()
PipeDial(t) ==
  /\ rpc[t] = "dial"
  /\ UcCall(t, "Dial")
  /\ rpc' = [rpc EXCEPT ![t] = "in_dial"]
  /\ UNCHANGED <<cc, built, hBroken, hcur, selVars, reqVars>>

\* uc.Dial returned: on an error (or a panic) Request returns it
PipeDialReturn(t) ==
  /\ rpc[t] = "in_dial"
  /\ UcReturn(t)
  /\ rpc' = [rpc EXCEPT ![t] = IF err[t] = NoErr THEN "new" ELSE "idle"]
  /\ UNCHANGED <<cc, built, hBroken, hcur, selVars, reqVars>>

\* Conn.dial: self.c = http.NewClientConn(self.uc, nil)
PipeNewHandle(t) ==
  /\ rpc[t] = "new"
  /\ cc' = Cardinality(built) + 1
  /\ built' = built \cup {<<Cardinality(built) + 1, conn>>}
  /\ rpc' = [rpc EXCEPT ![t] = "write"]
  /\ UNCHANGED <<hBroken, hcur, rcVars, selVars, reqVars>>

\* Conn.Request: err = self.c.Write(req), on the handle now in self.c
PipeWrite(t) ==
  /\ rpc[t] = "write"
  /\ hcur' = [hcur EXCEPT ![t] = cc]
  /\ IF cc \in hBroken
       THEN /\ rpc' = [rpc EXCEPT ![t] = "idle"]
            /\ UNCHANGED rcVars
       ELSE /\ UcCall(t, "Write")
            /\ rpc' = [rpc EXCEPT ![t] = "in_write"]
  /\ UNCHANGED <<cc, built, hBroken, selVars, reqVars>>

\* c.Write returned: if err == nil, the response is read next
PipeWriteReturn(t) ==
  /\ rpc[t] = "in_write"
  /\ UcReturn(t)
  /\ rpc' = [rpc EXCEPT ![t] = IF err[t] = NoErr THEN "read" ELSE "idle"]
  /\ hBroken' = IF err[t] = "err" THEN hBroken \cup {hcur[t]} ELSE hBroken
  /\ UNCHANGED <<cc, built, hcur, selVars, reqVars>>

\* Conn.Request: resp, err = self.c.Read(req), on the handle now in self.c
PipeRead(t) ==
  /\ rpc[t] = "read"
  /\ hcur' = [hcur EXCEPT ![t] = cc]
  /\ IF cc \in hBroken
       THEN /\ rpc' = [rpc EXCEPT ![t] = "idle"]
            /\ UNCHANGED rcVars
       ELSE /\ UcCall(t, "Read")
            /\ rpc' = [rpc EXCEPT ![t] = "in_read"]
  /\ UNCHANGED <<cc, built, hBroken, selVars, reqVars>>

\* c.Read returned; Request returns
PipeReadReturn(t) ==
  /\ rpc[t] = "in_read"
  /\ UcReturn(t)
  /\ rpc' = [rpc EXCEPT ![t] = "idle"]
  /\ hBroken' = IF err[t] = "err" THEN hBroken \cup {hcur[t]} ELSE hBroken
  /\ UNCHANGED <<cc, built, hcur, selVars, reqVars>>

PipeNext ==
  \E t \in Threads :
    \/ PipeRequest(t)
    \/ PipeDial(t)
    \/ PipeDialReturn(t)
    \/ PipeNewHandle(t)
    \/ PipeWrite(t)
    \/ PipeWriteReturn(t)
    \/ PipeRead(t)
    \/ PipeReadReturn(t)
    \/ dial(t)
    \/ dialerReturn(t)
    \/ readReturn(t)
    \/ writeReturn(t)
    \/ closeReturn(t)

PipeSpec == PipeInit /\ [][PipeNext]_vars

PipeTypeOK ==
  /\ cc \in 0..NumThreads
  /\ built \subseteq (1..NumThreads) \X (Socks \cup {Nil})
  /\ hBroken \subseteq 1..NumThreads
  /\ rpc \in [Threads -> {"idle", "dial", "in_dial", "new", "write", "in_write",
                          "read", "in_read"}]
  /\ hcur \in [Threads -> 0..NumThreads]

\* ===================================================================
\* Conn.Request and the request object: the query merge.  One caller hands
\* the same *http.Request to Conn.Request up to MaxSends times.  A query
\* string is the sequence of its parameters (1..MaxParams) separated by
\* Amp; a Form is nil or a set of parameters.
\* ===================================================================
\* the separator "&"
Amp == 0
Params == 1..MaxParams

\* The query strings a caller builds: empty, one parameter, or two.
Queries ==
  {<<>>} \cup {<<p>> : p \in Params}
         \cup {<<p, Amp, r>> : p \in Params, r \in Params}

\* req.Form: nil, or a (possibly empty) map of parameters
Forms == {[isNil |-> TRUE, vals |-> {}]} \cup {[isNil |-> FALSE, vals |-> S] : S \in SUBSET Params}

RECURSIVE Encode(_)
\* Values.Encode: the parameters sorted by key and joined with "&"
Encode(S) ==
  IF S = {} THEN <<>>
  ELSE LET m == CHOOSE x \in S : \A y \in S : x <= y
           rest == Encode(S \ {m})
       IN IF rest = <<>> THEN <<m>> ELSE <<m, Amp>> \o rest

\* (mutant) the encoded Form replaces the query
MergedQuery_Overwrite(q, f) == IF f.isNil THEN q ELSE Encode(f.vals)

\* if req.Form != nil { if RawQuery != "" { RawQuery += "&" };
\*                      RawQuery += req.Form.Encode() }
MergedQuery(q, f) ==
  IF f.isNil THEN q
  ELSE (IF q # <<>> THEN Append(q, Amp) ELSE q) \o Encode(f.vals)

RequestInit ==
  /\ ConnInit
  /\ NoSelect
  /\ NewConn
  /\ rqQuery \in Queries
  /\ rqForm \in Forms
  /\ rq0Query = rqQuery
  /\ rq0Form = rqForm
  /\ sent = <<>>
  /\ qpc = "idle"
  /\ rerr = NoErr
  /\ sends = 0

\* Conn.Request is called with the request; err = self.dial()
ReqDial ==
  /\ qpc = "idle"
  /\ sends < MaxSends
  /\ sends' = sends + 1
  /\ \E ok \in BOOLEAN :
       IF ok THEN qpc' = "dialed" /\ rerr' = NoErr
             ELSE qpc' = "idle" /\ rerr' = "dial"
  /\ UNCHANGED <<rqQuery, rqForm, rq0Query, rq0Form, sent, rcVars, selVars, pipeVars>>

\* if req.Form != nil { ...; req.Form = nil }
ReqMerge ==
  /\ qpc = "dialed"
  /\ rqQuery' = MergedQuery(rqQuery, rqForm)
  /\ rqForm' = [isNil |-> TRUE, vals |-> {}]
  /\ qpc' = "write"
  /\ UNCHANGED <<rq0Query, rq0Form, sent, rerr, sends, rcVars, selVars, pipeVars>>

\* err = self.c.Write(req): the request goes out with the query it has now
ReqWrite ==
  /\ qpc = "write"
  /\ sent' = Append(sent, rqQuery)
  /\ \E ok \in BOOLEAN :
       IF ok THEN qpc' = "read" /\ rerr' = NoErr
             ELSE qpc' = "idle" /\ rerr' = "write"
  /\ UNCHANGED <<rqQuery, rqForm, rq0Query, rq0Form, sends, rcVars, selVars, pipeVars>>

\* resp, err = self.c.Read(req); return
ReqRead ==
  /\ qpc = "read"
  /\ qpc' = "idle"
  /\ \E ok \in BOOLEAN : rerr' = IF ok THEN NoErr ELSE "read"
  /\ UNCHANGED <<rqQuery, rqForm, rq0Query, rq0Form, sent, sends, rcVars, selVars, pipeVars>>

RequestNext ==
  \/ ReqDial
  \/ ReqMerge
  \/ ReqWrite
  \/ ReqRead

RequestSpec == RequestInit /\ [][RequestNext]_vars

RequestTypeOK ==
  /\ rqForm \in Forms
  /\ rq0Form \in Forms
  /\ rq0Query \in Queries
  /\ Len(sent) <= sends
  /\ sends \in 0..MaxSends
  /\ qpc \in {"off", "idle", "dialed", "write", "read"}
  /\ rerr \in {NoErr, "dial", "write", "read"}

\* ===================================================================
\* Properties of ReusableConn, checked under Spec
\* ===================================================================
IsIO(t) == pc[t] \in {"in_read", "in_write"}

\* The stored deadlines that are not zero are in force on the held socket.
DeadlinesApplied ==
  /\ (readDeadline # ZeroTime => sockRD = readDeadline)
  /\ (writeDeadline # ZeroTime => sockWD = writeDeadline)

\* C1: a Read or Write that returns a non-nil error, whatever its cause,
\* returns with no socket held (so the next call invokes the Dialer).
C1_FailedIOHoldsNoSocket ==
  \A t \in Threads :
    (pc[t] = "unlock" /\ Kind(op[t]) \in {"Read", "Write"} /\ err[t] = "err")
      => conn = Nil

\* C2: whenever an underlying Read or Write is running on a socket, every
\* stored non-zero deadline has been applied to that socket.
C2_IOOnlyWithDeadlines ==
  \A t \in Threads : IsIO(t) => DeadlinesApplied

\* C3: a stored deadline is changed only by its own setter succeeding (never
\* by a discard or a redial); an operation that needs the socket and finds
\* none redials; and on a socket whose dial() returned nil the stored
\* deadlines are in force whenever I/O is delegated to it.
C3_DeadlinesSurviveRedial ==
  /\ [](\A t \in Threads : (IsIO(t) /\ dialOK) => DeadlinesApplied)
  /\ [][/\ readDeadline' # readDeadline =>
              \E t \in Threads : /\ pc[t] = "in_setRD" /\ pc'[t] = "unlock"
                                 /\ err'[t] = NoErr /\ readDeadline' = arg[t]
        /\ writeDeadline' # writeDeadline =>
              \E t \in Threads : /\ pc[t] = "in_setWD" /\ pc'[t] = "unlock"
                                 /\ err'[t] = NoErr /\ writeDeadline' = arg[t]
        /\ \A t \in Threads :
              (pc[t] = "locked" /\ Kind(op[t]) \in DialFirst /\ conn = Nil)
                => pc'[t] = "in_dialer"]_vars

\* C3 witness: a Read redialed (second socket), the stored read deadline was
\* re-applied, and the Read is now delegated to the new socket.
C3_Witness ==
  \E t \in Threads :
    /\ pc[t] = "in_read" /\ calls[t].dial = 1 /\ nDialed >= 2
    /\ readDeadline # ZeroTime /\ sockRD = readDeadline /\ dialOK

\* C4: Dial on a session that holds a socket does not invoke the Dialer,
\* changes nothing and returns nil.
C4_DialIdempotent ==
  [][\A t \in Threads :
       (pc[t] = "locked" /\ op[t] = "Dial" /\ conn # Nil)
         => /\ pc'[t] = "unlock"
            /\ err'[t] = NoErr
            /\ calls'[t].dial = 0
            /\ UNCHANGED <<conn, readDeadline, writeDeadline, sockVars>>]_vars

\* C4 witness: a Dial that found a socket is about to return.
C4_Witness ==
  \E t \in Threads :
    /\ pc[t] = "unlock" /\ op[t] = "Dial" /\ calls[t].dial = 0
    /\ conn # Nil /\ err[t] = NoErr

\* C5: at most one socket of the Dialer is open; it is the held one; the
\* Dialer runs only while none is held and none is open.
C5_AtMostOneOpenSocket ==
  /\ Cardinality(open) <= 1
  /\ open \subseteq {conn}
  /\ \A t \in Threads : pc[t] = "in_dialer" => (conn = Nil /\ open = {})

\* C5 witness: the first socket was closed and dropped, a second is open.
C5_Witness == nDialed = 2 /\ open = {2} /\ conn = 2

\* C6: the mutex is held exactly by the thread inside a public method, so it
\* is free whenever no public method is in progress, also after a panic,
\* and an idle thread's next call can then take it.
C6_MutexReleased ==
  /\ \A t \in Threads : (pc[t] \in LockedPCs) <=> (lock = t)
  /\ (\A t \in Threads : pc[t] \notin LockedPCs)
       => (lock = Free /\ \A t \in Threads : pc[t] = "idle" => ENABLED Call(t))

\* C6 witness: after a call was unwound by a panic, a thread holds the lock
\* again.
C6_Witness == faults /\ \E t \in Threads : pc[t] = "locked" /\ lock = t

\* C7: at most one thread is inside a Dialer or socket call, it holds the
\* lock, and it keeps the lock from its first step under it to its Unlock,
\* no other thread entering a call meanwhile.
C7_CallsSerialized ==
  /\ [](/\ Cardinality({t \in Threads : pc[t] \in InCallPCs}) <= 1
        /\ \A t \in Threads : pc[t] \in InCallPCs => lock = t)
  /\ [][\A t \in Threads :
          (pc[t] \in LockedPCs \ {"unlock"})
            => (lock' = t /\ \A u \in Threads \ {t} : pc'[u] \notin InCallPCs)]_vars

\* C7 witness: one thread redialed and is reading under the same lock
\* acquisition while another waits for the lock.
C7_Witness ==
  \E t, u \in Threads :
    /\ t # u /\ pc[t] = "in_read" /\ calls[t].dial = 1 /\ lock = t
    /\ pc[u] = "lock"

\* C8: Close (and Domain.Close) without a socket returns nil and changes
\* nothing; with a socket it calls that socket's Close once and, when it
\* returns, the handle is nil; it never invokes the Dialer.
C8_CloseOfClosed ==
  /\ [][\A t \in Threads :
          (pc[t] = "locked" /\ Kind(op[t]) = "Close")
            => IF conn = Nil
                 THEN /\ pc'[t] = "unlock" /\ err'[t] = NoErr
                      /\ calls'[t] = NoCalls
                      /\ UNCHANGED <<conn, readDeadline, writeDeadline, sockVars>>
                 ELSE /\ pc'[t] = "in_close" /\ calls'[t].close = 1
                      /\ open' = open \ {conn}]_vars
  /\ [](\A t \in Threads :
          (pc[t] = "unlock" /\ Kind(op[t]) = "Close" /\ err[t] # "panic")
            => /\ conn = Nil
               /\ calls[t].dial = 0 /\ calls[t].close <= 1
               /\ (calls[t].close = 0 => err[t] = NoErr))

\* C8 witness: Close on a session whose socket was already closed and
\* dropped is about to return nil, having called nothing.
C8_Witness ==
  \E t \in Threads :
    /\ pc[t] = "unlock" /\ op[t] = "Close" /\ calls[t].close = 0
    /\ nDialed >= 1 /\ conn = Nil /\ err[t] = NoErr

\* The thread's call is a Read or a Write.
InIOCall(t) == Kind(op[t]) \in {"Read", "Write"}

\* C16: one Read or Write call invokes the Dialer at most once and the
\* socket's Read/Write at most once; when that Read/Write fails, the call
\* goes on to close the socket, with no further Dialer or Read/Write call,
\* and returns the error with no socket held.
C16_NoTransparentRetry ==
  /\ [](\A t \in Threads :
          InIOCall(t) =>
            /\ calls[t].dial <= 1 /\ calls[t].io <= 1 /\ calls[t].close <= 1
            /\ (pc[t] = "unlock" /\ err[t] = "err" /\ calls[t].io = 1)
                 => (conn = Nil /\ calls[t].close = 1))
  /\ [][\A t \in Threads :
          /\ (IsIO(t) /\ err'[t] = "err")
               => (pc'[t] = "in_close" /\ calls'[t].dial = calls[t].dial
                   /\ calls'[t].io = calls[t].io /\ conn' = conn)
          /\ (InIOCall(t) /\ pc[t] = "in_close" /\ pc'[t] = "unlock" /\ err'[t] # "panic")
               => (err'[t] = "err" /\ conn' = Nil)]_vars

\* C16 witness: a Read redialed, its socket Read failed, and it is about to
\* return the error with the socket discarded and no second dial.
C16_Witness ==
  \E t \in Threads :
    /\ pc[t] = "unlock" /\ op[t] = "Read" /\ err[t] = "err"
    /\ calls[t] = [dial |-> 1, io |-> 1, close |-> 1, set |-> 0]
    /\ conn = Nil /\ nDialed = 2

\* The thread is inside a call of the given setter, holding the lock.
InSetter(t, k) == pc[t] \in LockedPCs /\ Kind(op[t]) = k

\* C17: during a SetReadDeadline call the stored write deadline never
\* changes, and the stored read deadline changes only in the step in which
\* the socket accepted the new value, to that value, which that step always
\* stores; a step that leaves the call with an error (failed dial, failed
\* apply) leaves it as it was.  Symmetrically for SetWriteDeadline.
C17_SetterFrame ==
  [][\A t \in Threads :
       /\ InSetter(t, "SetReadDeadline") =>
            /\ writeDeadline' = writeDeadline
            /\ (readDeadline' # readDeadline \/ (pc[t] = "in_setRD" /\ err'[t] = NoErr))
                 => (pc[t] = "in_setRD" /\ err'[t] = NoErr /\ readDeadline' = arg[t])
            /\ err'[t] # NoErr => readDeadline' = readDeadline
       /\ InSetter(t, "SetWriteDeadline") =>
            /\ readDeadline' = readDeadline
            /\ (writeDeadline' # writeDeadline \/ (pc[t] = "in_setWD" /\ err'[t] = NoErr))
                 => (pc[t] = "in_setWD" /\ err'[t] = NoErr /\ writeDeadline' = arg[t])
            /\ err'[t] # NoErr => writeDeadline' = writeDeadline]_vars

\* C17 witness: SetReadDeadline's apply to the live socket failed and the
\* call is about to return the error, the stored read deadline still being
\* the old value, not the argument.
C17_Witness ==
  \E t \in Threads :
    /\ pc[t] = "unlock" /\ op[t] = "SetReadDeadline" /\ err[t] = "err"
    /\ calls[t].set = 1 /\ readDeadline # arg[t]

\* ===================================================================
\* Properties of Domain.Select, checked under SelectSpec
\* ===================================================================
\* Responses 1..k of the log are successes: success status, decodable body.
AllOK(k) == \A j \in 1..k : resps[j].status = "ok" /\ resps[j].decodes

\* C9: when the k-th request (k >= 2) gets a failure status after k-1
\* successful pages, Select returns the error of that status, has sent
\* exactly k requests, and has delivered exactly the items of pages 1..k-1.
C9_StatusFailureStopsSelect ==
  \A k \in 2..MaxPages :
    (spc = "returned" /\ Len(resps) >= k /\ AllOK(k - 1) /\ resps[k].status = "fail")
      => /\ serr = "status"
         /\ Len(reqLog) = k
         /\ Delivered = Flatten(resps, k - 1)

\* C10: when every response is a success and neither signing nor the
\* transport failed, Select returns nil after exactly as many requests as
\* pages, the last page being the only one with an empty cursor, with all
\* items of all pages sent in page order and in-page order; and no request
\* is ever sent after a page with an empty cursor was received.
C10_PaginationTerminates ==
  /\ (spc = "returned" /\ serr \notin {"sign", "transport"} /\ AllOK(Len(resps)))
       => /\ Len(resps) >= 1
          /\ serr = NoErr
          /\ Len(reqLog) = Len(resps)
          /\ resps[Len(resps)].next = 0
          /\ \A j \in 1..(Len(resps) - 1) : resps[j].next # 0
          /\ Delivered = Flatten(resps, Len(resps))
  /\ \A j \in 1..Len(resps) :
       (resps[j].decodes /\ resps[j].next = 0) => Len(reqLog) <= j

\* C10 witness: three successful pages with items, the third with the empty
\* cursor; Select has returned and the consumer has drained the channel.
C10_Witness ==
  /\ spc = "returned" /\ serr = NoErr /\ Len(resps) = 3 /\ AllOK(3)
  /\ \A j \in 1..3 : resps[j].n >= 1
  /\ queue = <<>> /\ consumed = Flatten(resps, 3) /\ Len(consumed) >= 3

\* s is an initial segment of t.
IsPrefix(s, t) == Len(s) <= Len(t) /\ SubSeq(t, 1, Len(s)) = s

\* Select is at a send of the current page's next item.
AtPush == spc = "push" /\ pidx <= resps[Len(resps)].n

\* C12: the channel never holds more than its capacity; a send on a full
\* buffered channel cannot proceed, only the consumer's receive can; and
\* the items received followed by the items buffered are always an initial
\* segment of the server's items in page order and in-page order.
C12_BackpressureInOrder ==
  /\ Len(queue) <= qcap
  /\ IsPrefix(Delivered, Flatten(resps, Len(resps)))
  /\ (AtPush /\ qcap > 0 /\ Len(queue) = qcap)
       => (~ENABLED SelectPush /\ ENABLED Consume)

\* C12 witness: on the second page or later, a send waits on a full channel
\* of capacity two after the consumer has received an item.
C12_Witness ==
  /\ AtPush /\ qcap = 2 /\ Len(queue) = 2
  /\ Len(resps) >= 2 /\ Len(consumed) >= 1

\* Select is at a send that cannot proceed, and the consumer has stopped.
Blocked == AtPush /\ ~consuming /\ ~CanSend

\* C13: under SelectFairSpec, as long as the consumer has not stopped
\* receiving, Select eventually returns (the pages run out or a step
\* fails); and once the consumer has stopped with Select at a send that
\* cannot proceed, Select can take no step and stays at that send for ever.
C13_ReturnsUnlessConsumerStops ==
  /\ <>(spc = "returned" \/ ~consuming)
  /\ [](Blocked => ~ENABLED SelectStep)
  /\ [][Blocked => (Blocked' /\ spc' = spc /\ pidx' = pidx)]_vars

\* C13 witness: the consumer received an item and then stopped; Select is
\* at a send on a full channel of capacity two.
C13_Witness ==
  /\ Blocked /\ qcap = 2 /\ Len(queue) = 2 /\ Len(consumed) >= 1

\* C18: the first request has no NextToken; request k+1 is sent only after
\* response k came with a non-empty cursor and carries exactly that cursor
\* (each page's cursor being different from every other's); requests are
\* sent one at a time; and every request has the base parameters of the
\* call.
C18_CursorChain ==
  /\ Len(reqLog) >= 1 => reqLog[1] = 0
  /\ Len(reqLog) <= Len(resps) + 1
  /\ \A k \in 1..(Len(reqLog) - 1) :
       /\ resps[k].next # 0
       /\ reqLog[k + 1] = resps[k].next
       /\ \A j \in 1..(k - 1) : reqLog[k + 1] # resps[j].next
  /\ \A k \in 1..Len(reqBase) : reqBase[k] = vlBase /\ reqBase[k] = reqBase[1]

\* C18 witness: a third request went out, carrying the second page's cursor.
C18_Witness ==
  /\ Len(reqLog) = 3 /\ Len(resps) >= 2
  /\ reqLog[3] = resps[2].next /\ resps[2].next # resps[1].next
  /\ "ConsistentRead" \in reqBase[3]

\* C19: from its call to its return, on every path, Select leaves the
\* channel's open/closed status as it was (open), and what has been sent on
\* the channel only ever grows by one item at its end.
C19_SelectNeverCloses ==
  /\ [](spc # "returned" => ~qclosed)
  /\ [][spc # "returned" =>
          /\ qclosed' = qclosed
          /\ \/ Delivered' = Delivered
             \/ /\ Len(Delivered') = Len(Delivered) + 1
                /\ IsPrefix(Delivered, Delivered')]_vars

\* C19 witness: Select has returned a decode error after sending items,
\* and the channel is still open.
C19_Witness ==
  /\ spc = "returned" /\ serr = "decode" /\ ~qclosed
  /\ Len(Delivered) >= 1

\* ===================================================================
\* Properties of the Domain methods, checked under DomainSpec
\* ===================================================================
\* C15: in all three methods the step in which signing fails sends no
\* request, and none is sent while the error is the signing error (for
\* GetAttribute and DeleteAttribute that step returns); GetAttribute and
\* DeleteAttribute send at most one request, exactly one when signing
\* succeeded, and return an error when the response has a failure status.
C15_SignThenRequestOnce ==
  /\ [][/\ (serr # "sign" /\ serr' = "sign")
             => (reqLog' = reqLog /\ resps' = resps /\ (sop \in AttrOps => spc' = "returned"))
        /\ serr = "sign" => reqLog' = reqLog]_vars
  /\ [](sop \in AttrOps =>
          /\ Len(reqLog) <= 1
          /\ spc = "returned" =>
                /\ (serr = "sign" <=> Len(reqLog) = 0)
                /\ (Len(resps) = 1 /\ resps[1].status = "fail") => serr # NoErr)

\* C15 witness: GetAttribute signed, sent its one request, got a failure
\* status and has returned the error of that status.
C15_Witness ==
  /\ sop = "GetAttribute" /\ spc = "returned" /\ Len(reqLog) = 1
  /\ Len(resps) = 1 /\ resps[1].status = "fail" /\ serr = "status"

\* ===================================================================
\* Properties of Conn.Request's query merge, checked under RequestSpec
\* ===================================================================
\* What the claim says goes out for a request built with query q and Form f.
Transmitted(q, f) ==
  IF f.isNil THEN q
  ELSE IF q = <<>> THEN Encode(f.vals)
  ELSE q \o <<Amp>> \o Encode(f.vals)

\* C14: every c.Write of the request object carries q & encode(Form) when
\* the caller's q is non-empty and encode(Form) when it is empty, also when
\* the same object is sent again; once it was sent its Form is nil and its
\* query is the merged one; and the caller's query is always kept as the
\* beginning of the request's query.
C14_QueryMerge ==
  /\ \A i \in 1..Len(sent) : sent[i] = Transmitted(rq0Query, rq0Form)
  /\ (qpc \in {"write", "read"} \/ Len(sent) >= 1)
       => (rqForm.isNil /\ rqQuery = Transmitted(rq0Query, rq0Form))
  /\ IsPrefix(rq0Query, rqQuery)

\* C14 witness: a request built with a non-empty query and a Form of two
\* parameters has been written twice.
C14_Witness ==
  /\ Len(sent) = 2 /\ rq0Query # <<>>
  /\ ~rq0Form.isNil /\ Cardinality(rq0Form.vals) = 2

\* ===================================================================
\* Properties of Conn, checked under PipeSpec
\* ===================================================================
\* No caller is inside Conn.Request.
PipeQuiet == \A t \in Threads : rpc[t] = "idle"

\* C11: whenever Conn holds a handle between requests, the handle was built
\* on the socket the ReusableConn holds now: a transport failure that
\* discards the socket leaves Conn without a handle.
C11_HandleBoundToLiveSocket ==
  (PipeQuiet /\ cc # 0) => (conn # Nil /\ BuiltOn(cc) = conn)

\* A caller has started c.Write of its request and c.Read of its response
\* has not returned yet.
InExchange(t) == rpc[t] \in {"in_write", "read", "in_read"}

\* C20: with concurrent callers of Request, no two handles are built on the
\* same socket, and at most one caller at a time is between the write of
\* its request and the read of its response.
C20_RequestsNotInterleaved ==
  /\ \A p, q \in built : p[2] = q[2] => p[1] = q[1]
  /\ Cardinality({t \in Threads : InExchange(t)}) <= 1

====
